---- MODULE Spec2Model ----
(***************************************************************************)
(* Panel arrangement engine of the multi-SNS viewer (renderer process).    *)
(*                                                                         *)
(* The slot of a panel is not held in a data structure: it is the CSS      *)
(* class of the panel element (main-panel / secondary-panel / sub-panel)   *)
(* together with its place among the children of .main-view or .sub-views. *)
(* The model keeps exactly that: the two child lists, the class list of    *)
(* every panel and of its webview, and the user agent of every webview.    *)
(* A panel element is named by its data-sns attribute.                     *)
(***************************************************************************)
EXTENDS Integers, Sequences, FiniteSets, TLC

VARIABLES
    mainView,      \* children of .main-view, in document order
    subViews,      \* children of .sub-views, in document order
    panelClass,    \* panel -> its slot classes
    webviewClass,  \* panel -> classes of its webview
    userAgent,     \* panel -> user agent last set on its webview
    isPinned,      \* the pin flag
    sentLayout,    \* slots of the last setConfig('layout', {slots}) call
    sentPinned,    \* value of the last setConfig('pinned', v) call
    pc,            \* the await initialize() is suspended at
    answer,        \* what the awaited getConfig resolved with, Pending before
    globalZoom,    \* the zoom multiplier of all webviews
    globalVolume,  \* the volume of all webviews
    ready,         \* panel -> the page of its webview has emitted dom-ready
    zoomFactor,    \* panel -> argument of the last setZoomFactor on its webview
    audio,         \* panel -> mute flag and media volume last applied
    zoomMode,      \* panel -> isDesktop of the last adjustWebviewZoom on its webview
    timers,        \* callbacks of setTimeout that have not run yet, oldest first
    store,         \* key -> value the settings store of the main process holds
    channel,       \* invoke messages sent to the main process, not handled yet
    setCalls,      \* number of setConfig calls issued
    panelSize,     \* width, height and mode handed to the zoom calculator
    zoomCalculation, \* what the zoom calculator returned for panelSize
    controlValue,  \* number handed to the utilities of the controls
    controlResult, \* what the utilities of the controls returned for controlValue
    permissionRequests, \* permission requests the session has not answered yet
    permissionAnswers   \* calls of the callback of a permission request, in order

docVars == <<mainView, subViews, panelClass, webviewClass, userAgent>>

controlVars == <<globalZoom, globalVolume>>

surfaceVars == <<ready, zoomFactor, audio, zoomMode>>

timerVars == <<timers>>

ipcVars == <<store, channel, setCalls>>

utilVars == <<controlValue, controlResult>>

permissionVars == <<permissionRequests, permissionAnswers>>

\* what the functions checked on their own work on
calcVars == <<panelSize, zoomCalculation, utilVars, permissionVars>>

vars == <<mainView, subViews, panelClass, webviewClass, userAgent, isPinned,
          sentLayout, sentPinned, pc, answer, globalZoom, globalVolume,
          ready, zoomFactor, audio, zoomMode, timers, store, channel, setCalls,
          panelSize, zoomCalculation, controlValue, controlResult,
          permissionRequests, permissionAnswers>>

(***************************************************************************)
(* Bounds                                                                  *)
(***************************************************************************)
\* longest persisted slots array the store answers with
MaxSlots == 4

\* setConfig calls issued in one run of the renderer with its store
MaxSetCalls == 2

\* setTimeout callbacks waiting at one time
MaxTimers == 2

(***************************************************************************)
(* The panels of index.html and the values a store can answer with        *)
(***************************************************************************)
BuiltinArrangement == <<"youtube", "tiktok", "x", "instagram", "threads">>

Sites == {BuiltinArrangement[i] : i \in 1..Len(BuiltinArrangement)}

MOBILE_USER_AGENT == "iPhone Safari"

NoNode == "#null"
MainPlaceholder == "#mainPlaceholder"
SecondaryPlaceholder == "#secondaryPlaceholder"

\* The awaited getConfig has not resolved.
Pending == [t |-> "pending"]

\* Nothing sent yet on a key.
NotSent == <<"#none">>

JsUndefined == [t |-> "undefined"]
JsNull == [t |-> "null"]
JsString(s) == [t |-> "string", v |-> s]
JsNumber(n) == [t |-> "number", v |-> n]
JsArray(es) == [t |-> "array", elems |-> es]
JsObject(slots) == [t |-> "object", slots |-> slots]

\* the config a slots array of strings is persisted and read back as
AsLayoutConfig(slots) == JsObject(JsArray([i \in 1..Len(slots) |-> JsString(slots[i])]))

\* identifiers a persisted slots array is built from: two known panels and
\* the empty string saveLayout writes for a missing panel
SlotIds == {"x", "threads", ""}

RECURSIVE SeqsUpTo(_, _)
SeqsUpTo(S, n) ==
    IF n = 0 THEN {<<>>}
    ELSE LET shorter == SeqsUpTo(S, n - 1)
         IN  shorter \cup {Append(q, e) : q \in shorter, e \in S}

\* the built-in arrangement, a permutation of it, an unknown site in slot 0
NamedSlots ==
    {BuiltinArrangement,
     <<"threads", "x", "tiktok", "youtube", "instagram">>,
     <<"mastodon", "tiktok", "instagram">>}

StringSlots == {[i \in 1..Len(q) |-> JsString(q[i])] : q \in SeqsUpTo(SlotIds, MaxSlots)}

LayoutValues ==
    {JsUndefined, JsNull, JsNumber(1), JsString("youtube"),
     JsObject(JsUndefined), JsObject(JsString("youtube")),
     JsObject(JsArray(<<JsString("x"), JsNumber(1)>>))}
    \cup {JsObject(JsArray(q)) : q \in StringSlots}
    \cup {JsObject(JsArray([i \in 1..Len(q) |-> JsString(q[i])])) : q \in NamedSlots}

(***************************************************************************)
(* utils                                                                   *)
(***************************************************************************)
\* mutant: an empty slots array is accepted
isValidLayoutConfigAnyLength(config) ==
    IF config.t # "object" THEN FALSE
    ELSE IF config.slots.t # "array" THEN FALSE
    ELSE \A i \in 1..Len(config.slots.elems) : config.slots.elems[i].t = "string"

\* mutant: only the identifiers of the panels of index.html are accepted
isValidLayoutConfigKnownSites(config) ==
    IF config.t # "object" THEN FALSE
    ELSE IF config.slots.t # "array" THEN FALSE
    ELSE IF Len(config.slots.elems) = 0 THEN FALSE
    ELSE \A i \in 1..Len(config.slots.elems) :
             /\ config.slots.elems[i].t = "string"
             /\ config.slots.elems[i].v \in Sites \cup {""}

isValidLayoutConfig(config) ==
    IF config.t # "object" THEN FALSE
    ELSE IF config.slots.t # "array" THEN FALSE
    ELSE IF Len(config.slots.elems) = 0 THEN FALSE
    ELSE \A i \in 1..Len(config.slots.elems) : config.slots.elems[i].t = "string"

\* index is the 0-based array index
getPanelTypeByIndex(index) ==
    IF index = 0 THEN "main"
    ELSE IF index = 1 THEN "secondary"
    ELSE "sub"

getWebviewClassByPanelType(panelType) ==
    IF panelType = "main" THEN "webview-desktop" ELSE "webview-mobile"

getPanelClassByType(panelType) ==
    IF panelType = "main" THEN "main-panel"
    ELSE IF panelType = "secondary" THEN "secondary-panel"
    ELSE "sub-panel"

(***************************************************************************)
(* Numbers: a JavaScript number is kept as the fraction n/d in lowest      *)
(* terms, d > 0                                                            *)
(***************************************************************************)
Abs(i) == IF i < 0 THEN -i ELSE i

RECURSIVE Gcd(_, _)
Gcd(a, b) == IF b = 0 THEN a ELSE Gcd(b, a % b)

Rat(n, d) ==
    LET g == Gcd(Abs(n), Abs(d))
        sign == IF d < 0 THEN -1 ELSE 1
    IN  [n |-> sign * (n \div g), d |-> sign * (d \div g)]

RatLess(a, b) == a.n * b.d < b.n * a.d

RatAdd(a, b) == Rat(a.n * b.d + b.n * a.d, a.d * b.d)

RatMul(a, b) == Rat(a.n * b.n, a.d * b.d)

MathMin(a, b) == IF RatLess(b, a) THEN b ELSE a

MathMax(a, b) == IF RatLess(a, b) THEN b ELSE a

(***************************************************************************)
(* Zoom calculator and the clamps of the global controls                   *)
(***************************************************************************)
DESKTOP_VIEWPORT_WIDTH == 1280
DESKTOP_VIEWPORT_HEIGHT == 720
MOBILE_VIEWPORT_WIDTH == 393
MOBILE_VIEWPORT_HEIGHT == 852

\* mutant: the larger of the two axis ratios is taken
calculateDesktopZoomMax(panelWidth, panelHeight) ==
    LET zoomByWidth == Rat(panelWidth, DESKTOP_VIEWPORT_WIDTH)
        zoomByHeight == Rat(panelHeight, DESKTOP_VIEWPORT_HEIGHT)
        zoomFactor_ == MathMax(zoomByWidth, zoomByHeight)
        clampedZoom == MathMax(Rat(1, 2), MathMin(Rat(2, 1), zoomFactor_))
    IN  [zoomFactor |-> zoomFactor_, clampedZoom |-> clampedZoom]

calculateDesktopZoom(panelWidth, panelHeight) ==
    LET zoomByWidth == Rat(panelWidth, DESKTOP_VIEWPORT_WIDTH)
        zoomByHeight == Rat(panelHeight, DESKTOP_VIEWPORT_HEIGHT)
        zoomFactor_ == MathMin(zoomByWidth, zoomByHeight)
        clampedZoom == MathMax(Rat(1, 2), MathMin(Rat(2, 1), zoomFactor_))
    IN  [zoomFactor |-> zoomFactor_, clampedZoom |-> clampedZoom]

\* mutant: the lower clamp of the mobile factor is missing
calculateMobileZoomNoFloor(panelWidth, panelHeight) ==
    LET zoomByWidth == Rat(panelWidth, MOBILE_VIEWPORT_WIDTH)
        zoomByHeight == Rat(panelHeight, MOBILE_VIEWPORT_HEIGHT)
        zoomFactor_ == MathMin(zoomByWidth, zoomByHeight)
        clampedZoom == MathMin(Rat(1, 1), zoomFactor_)
    IN  [zoomFactor |-> zoomFactor_, clampedZoom |-> clampedZoom]

calculateMobileZoom(panelWidth, panelHeight) ==
    LET zoomByWidth == Rat(panelWidth, MOBILE_VIEWPORT_WIDTH)
        zoomByHeight == Rat(panelHeight, MOBILE_VIEWPORT_HEIGHT)
        zoomFactor_ == MathMin(zoomByWidth, zoomByHeight)
        clampedZoom == MathMax(Rat(1, 4), MathMin(Rat(1, 1), zoomFactor_))
    IN  [zoomFactor |-> zoomFactor_, clampedZoom |-> clampedZoom]

ZOOM_STEP == Rat(1, 10)
ZOOM_MIN == Rat(1, 2)
ZOOM_MAX == Rat(2, 1)
ZOOM_DEFAULT == Rat(1, 1)

VOLUME_STEP == Rat(1, 10)
VOLUME_MIN == Rat(0, 1)
VOLUME_MAX == Rat(1, 1)
VOLUME_DEFAULT == Rat(1, 2)

\* mutant: no upper limit
clampZoomNoCeiling(zoom) == MathMax(ZOOM_MIN, zoom)

clampZoom(zoom) == MathMax(ZOOM_MIN, MathMin(ZOOM_MAX, zoom))

\* mutant: no lower limit
clampVolumeNoFloor(volume) == MathMin(VOLUME_MAX, volume)

clampVolume(volume) == MathMax(VOLUME_MIN, MathMin(VOLUME_MAX, volume))

\* Math.round: the nearest integer, a half goes up
MathRound(q) == (2 * q.n + q.d) \div (2 * q.d)

\* mutant: a half goes down
formatZoomPercentHalfDown(zoom) ==
    LET q == RatMul(zoom, Rat(100, 1))
    IN  ToString(-((q.d - 2 * q.n) \div (2 * q.d))) \o "%"

\* `${Math.round(zoom * 100)}%`
formatZoomPercent(zoom) == ToString(MathRound(RatMul(zoom, Rat(100, 1)))) \o "%"

formatVolumePercent(volume) == ToString(MathRound(RatMul(volume, Rat(100, 1)))) \o "%"

\* mutant: the bands include their upper bound
getVolumeIconUpperInclusive(volume) ==
    IF volume = Rat(0, 1) THEN "mute"
    ELSE IF ~RatLess(Rat(3, 10), volume) THEN "low"
    ELSE IF ~RatLess(Rat(7, 10), volume) THEN "mid"
    ELSE "high"

\* the icon is named by its band: mute is the muted speaker, low, mid and
\* high the speaker with one, two and three waves
getVolumeIcon(volume) ==
    IF volume = Rat(0, 1) THEN "mute"
    ELSE IF RatLess(volume, Rat(3, 10)) THEN "low"
    ELSE IF RatLess(volume, Rat(7, 10)) THEN "mid"
    ELSE "high"

(***************************************************************************)
(* DOM operations on a document d = [mainView, subViews, panelClass,       *)
(* webviewClass, userAgent]                                                *)
(***************************************************************************)
Document ==
    [mainView |-> mainView, subViews |-> subViews, panelClass |-> panelClass,
     webviewClass |-> webviewClass, userAgent |-> userAgent]

\* Array.prototype.indexOf: 0-based, -1 when absent
indexOf(children, node) ==
    IF \E i \in 1..Len(children) : children[i] = node
    THEN (CHOOSE i \in 1..Len(children) :
            children[i] = node /\ \A j \in 1..(i - 1) : children[j] # node) - 1
    ELSE -1

removeChild(children, node) == SelectSeq(children, LAMBDA n : n # node)

\* a node has one parent: inserting it anywhere takes it out of where it was
detach(d, node) ==
    [d EXCEPT !.mainView = removeChild(@, node), !.subViews = removeChild(@, node)]

\* parent.insertBefore(node, ref); ref = NoNode appends
insertBefore(d, parent, node, ref) ==
    IF node = ref THEN d
    ELSE LET d1 == detach(d, node)
             children == d1[parent]
             k == indexOf(children, ref)
             placed == IF ref = NoNode \/ k < 0
                       THEN Append(children, node)
                       ELSE SubSeq(children, 1, k) \o <<node>>
                            \o SubSeq(children, k + 1, Len(children))
         IN  [d1 EXCEPT ![parent] = placed]

appendChild(d, parent, node) == insertBefore(d, parent, node, NoNode)

\* old.replaceWith(node), old a child of .main-view
replaceWith(d, old, node) ==
    LET d1 == insertBefore(d, "mainView", node, old)
    IN  [d1 EXCEPT !.mainView = removeChild(@, old)]

firstChild(children) == IF Len(children) = 0 THEN NoNode ELSE children[1]

\* view.querySelector('.' + class): first panel of the view carrying the class
querySelector(d, view, class) ==
    LET children == d[view]
        hits == {i \in 1..Len(children) :
                    children[i] \in Sites /\ class \in d.panelClass[children[i]]}
    IN  IF hits = {} THEN NoNode
        ELSE children[CHOOSE i \in hits : \A j \in hits : i <= j]

\* view.querySelectorAll('.' + class), in document order
querySelectorAll(d, view, class) ==
    SelectSeq(d[view], LAMBDA n : n \in Sites /\ class \in d.panelClass[n])

\* panel?.dataset.sns || ''
datasetSns(node) == IF node = NoNode THEN "" ELSE node

(***************************************************************************)
(* saveLayout: the slots array handed to setConfig('layout', {slots})      *)
(***************************************************************************)
\* mutant: nothing is pushed for an absent secondary panel
saveLayoutSlotsNoSentinel(d) ==
    <<datasetSns(querySelector(d, "mainView", "main-panel"))>>
    \o (IF querySelector(d, "mainView", "secondary-panel") = NoNode THEN <<>>
        ELSE <<datasetSns(querySelector(d, "mainView", "secondary-panel"))>>)
    \o querySelectorAll(d, "subViews", "sub-panel")

saveLayoutSlots(d) ==
    <<datasetSns(querySelector(d, "mainView", "main-panel")),
      datasetSns(querySelector(d, "mainView", "secondary-panel"))>>
    \o querySelectorAll(d, "subViews", "sub-panel")

currentArrangement == saveLayoutSlots(Document)

(***************************************************************************)
(* classList and webview helpers                                           *)
(***************************************************************************)
classListRemove(classes, node, class) == [classes EXCEPT ![node] = @ \ {class}]

classListAdd(classes, node, class) == [classes EXCEPT ![node] = @ \cup {class}]

setUserAgent(agents, node, agent) == [agents EXCEPT ![node] = agent]

NoOp(d) == [doc |-> d, saved |-> FALSE]

(***************************************************************************)
(* swapPanels(clickedSubPanel): exchange the main panel and a sub panel.   *)
(* The result is the document after the handler and whether it went on to  *)
(* saveLayout().                                                           *)
(***************************************************************************)
swapPanelsWebviews(d, currentMainPanel, clickedSubPanel) ==
    LET w1 == classListRemove(d.webviewClass, currentMainPanel, "webview-desktop")
        w2 == classListAdd(w1, currentMainPanel, "webview-mobile")
        u1 == setUserAgent(d.userAgent, currentMainPanel, MOBILE_USER_AGENT)
        w3 == classListRemove(w2, clickedSubPanel, "webview-mobile")
        w4 == classListAdd(w3, clickedSubPanel, "webview-desktop")
        u2 == setUserAgent(u1, clickedSubPanel, "")
    IN  [d EXCEPT !.webviewClass = w4, !.userAgent = u2]

\* mutant: the clicked panel keeps its sub-panel class
swapPanelsClassesKeepSub(d, currentMainPanel, clickedSubPanel) ==
    LET c1 == classListRemove(d.panelClass, currentMainPanel, "main-panel")
        c2 == classListAdd(c1, currentMainPanel, "sub-panel")
        c4 == classListAdd(c2, clickedSubPanel, "main-panel")
    IN  [d EXCEPT !.panelClass = c4]

swapPanelsClasses(d, currentMainPanel, clickedSubPanel) ==
    LET c1 == classListRemove(d.panelClass, currentMainPanel, "main-panel")
        c2 == classListAdd(c1, currentMainPanel, "sub-panel")
        c3 == classListRemove(c2, clickedSubPanel, "sub-panel")
        c4 == classListAdd(c3, clickedSubPanel, "main-panel")
    IN  [d EXCEPT !.panelClass = c4]

\* the clicked panel goes in front of the secondary panel of .main-view
swapPanelsMoveClicked(d, clickedSubPanel) ==
    LET secondaryPanel == querySelector(d, "mainView", "secondary-panel")
    IN  IF secondaryPanel # NoNode
        THEN insertBefore(d, "mainView", clickedSubPanel, secondaryPanel)
        ELSE appendChild(d, "mainView", clickedSubPanel)

\* mutant: the former main panel is not moved into .sub-views
swapPanelsMoveMainNowhere(d, currentMainPanel, subPanelIndex) == d

\* mutant: the former main panel always goes to the end of .sub-views
swapPanelsMoveMainLast(d, currentMainPanel, subPanelIndex) ==
    appendChild(d, "subViews", currentMainPanel)

\* the former main panel goes where the clicked panel was in .sub-views
swapPanelsMoveMain(d, currentMainPanel, subPanelIndex) ==
    IF subPanelIndex >= 0 /\ subPanelIndex < Len(d.subViews)
    THEN insertBefore(d, "subViews", currentMainPanel, d.subViews[subPanelIndex + 1])
    ELSE appendChild(d, "subViews", currentMainPanel)

\* swapPanels past its isPinned guard
swapPanelsUnpinned(d, clickedSubPanel) ==
    LET currentMainPanel == querySelector(d, "mainView", "main-panel")
    IN  IF currentMainPanel = NoNode THEN NoOp(d)
        ELSE LET d1 == swapPanelsWebviews(d, currentMainPanel, clickedSubPanel)
                 d2 == swapPanelsClasses(d1, currentMainPanel, clickedSubPanel)
                 subPanelIndex == indexOf(d2.subViews, clickedSubPanel)
                 d3 == swapPanelsMoveClicked(d2, clickedSubPanel)
                 d4 == swapPanelsMoveMain(d3, currentMainPanel, subPanelIndex)
             IN  [doc |-> d4, saved |-> TRUE]

\* mutant: the isPinned guard is missing
swapPanelsNoPinGuard(d, pinned, clickedSubPanel) ==
    swapPanelsUnpinned(d, clickedSubPanel)

swapPanels(d, pinned, clickedSubPanel) ==
    IF pinned THEN NoOp(d) ELSE swapPanelsUnpinned(d, clickedSubPanel)

(***************************************************************************)
(* swapWithSecondary(secondaryPanel): exchange the main and the secondary  *)
(* panel through two placeholders.                                         *)
(***************************************************************************)
swapWithSecondaryClasses(d, mainPanel, secondaryPanel) ==
    LET c1 == classListRemove(d.panelClass, mainPanel, "main-panel")
        c2 == classListAdd(c1, mainPanel, "secondary-panel")
        c3 == classListRemove(c2, secondaryPanel, "secondary-panel")
        c4 == classListAdd(c3, secondaryPanel, "main-panel")
    IN  [d EXCEPT !.panelClass = c4]

swapWithSecondaryWebviews(d, mainPanel, secondaryPanel) ==
    LET w1 == classListRemove(d.webviewClass, mainPanel, "webview-desktop")
        w2 == classListAdd(w1, mainPanel, "webview-mobile")
        u1 == setUserAgent(d.userAgent, mainPanel, MOBILE_USER_AGENT)
        w3 == classListRemove(w2, secondaryPanel, "webview-mobile")
        w4 == classListAdd(w3, secondaryPanel, "webview-desktop")
        u2 == setUserAgent(u1, secondaryPanel, "")
    IN  [d EXCEPT !.webviewClass = w4, !.userAgent = u2]

swapWithSecondaryMove(d, secondaryPanel, mainPanel) ==
    replaceWith(replaceWith(d, MainPlaceholder, secondaryPanel),
                SecondaryPlaceholder, mainPanel)

\* insertBefore throws when its reference node is no child of the parent:
\* the handler then ends with the first placeholder left in .main-view
swapWithSecondary(d, pinned, secondaryPanel) ==
    IF pinned THEN NoOp(d)
    ELSE LET mainPanel == querySelector(d, "mainView", "main-panel")
         IN  IF mainPanel = NoNode THEN NoOp(d)
             ELSE LET d1 == insertBefore(d, "mainView", MainPlaceholder, mainPanel)
                  IN  IF indexOf(d1.mainView, secondaryPanel) < 0 THEN NoOp(d1)
                      ELSE LET d2 == insertBefore(d1, "mainView", SecondaryPlaceholder,
                                                  secondaryPanel)
                               d3 == swapWithSecondaryClasses(d2, mainPanel, secondaryPanel)
                               d4 == swapWithSecondaryWebviews(d3, mainPanel, secondaryPanel)
                               d5 == swapWithSecondaryMove(d4, secondaryPanel, mainPanel)
                           IN  [doc |-> d5, saved |-> TRUE]

(***************************************************************************)
(* The click listener of the panel headers: target is the panel whose      *)
(* header was clicked.                                                     *)
(***************************************************************************)
\* target.closest('.sub-panel'): only a panel in a Sub slot is handed to
\* swapPanels
swapMainWithSub(d, pinned, subSiteId) ==
    IF "sub-panel" \in d.panelClass[subSiteId]
    THEN swapPanels(d, pinned, subSiteId)
    ELSE NoOp(d)

\* target.closest('.secondary-panel'), reached when the panel is no sub panel
swapMainWithSecondary(d, pinned, target) ==
    IF "sub-panel" \notin d.panelClass[target]
       /\ "secondary-panel" \in d.panelClass[target]
    THEN swapWithSecondary(d, pinned, target)
    ELSE NoOp(d)

panelHeaderClick(d, pinned, target) ==
    IF "sub-panel" \in d.panelClass[target]
    THEN swapMainWithSub(d, pinned, target)
    ELSE swapMainWithSecondary(d, pinned, target)

(***************************************************************************)
(* restoreLayout, from the reset of the classes on: slots are the strings  *)
(* of a validated config                                                   *)
(***************************************************************************)
\* mutant: the classes of the panels are not reset
restoreLayoutResetNothing(d) == d

\* mutant: only the classes of the main panel are reset
restoreLayoutResetMainOnly(d) ==
    [d EXCEPT !.panelClass = [p \in Sites |->
                                IF "main-panel" \in d.panelClass[p] THEN {}
                                ELSE d.panelClass[p]],
              !.webviewClass = [p \in Sites |->
                                  IF "main-panel" \in d.panelClass[p] THEN {}
                                  ELSE d.webviewClass[p]]]

restoreLayoutReset(d) ==
    [d EXCEPT !.panelClass = [p \in Sites |-> {}],
              !.webviewClass = [p \in Sites |-> {}]]

\* mutant: a sub panel is put in front of .sub-views instead of at its end
restoreLayoutPlaceSubFirst(d, sns, index) ==
    IF sns \notin Sites THEN d
    ELSE LET panelType == getPanelTypeByIndex(index)
             d1 == [d EXCEPT
                      !.panelClass = classListAdd(@, sns, getPanelClassByType(panelType)),
                      !.webviewClass = classListAdd(@, sns,
                                           getWebviewClassByPanelType(panelType))]
         IN  IF panelType = "main"
             THEN insertBefore(d1, "mainView", sns, firstChild(d1.mainView))
             ELSE IF panelType = "secondary"
                  THEN appendChild(d1, "mainView", sns)
                  ELSE insertBefore(d1, "subViews", sns, firstChild(d1.subViews))

\* one turn of config.slots.forEach((sns, index) => ...)
restoreLayoutPlace(d, sns, index) ==
    IF sns \notin Sites THEN d
    ELSE LET panelType == getPanelTypeByIndex(index)
             d1 == [d EXCEPT
                      !.panelClass = classListAdd(@, sns, getPanelClassByType(panelType)),
                      !.webviewClass = classListAdd(@, sns,
                                           getWebviewClassByPanelType(panelType))]
         IN  IF panelType = "main"
             THEN insertBefore(d1, "mainView", sns, firstChild(d1.mainView))
             ELSE IF panelType = "secondary"
                  THEN appendChild(d1, "mainView", sns)
                  ELSE appendChild(d1, "subViews", sns)

RECURSIVE restoreLayoutSlots(_, _, _)
restoreLayoutSlots(d, slots, index) ==
    IF index >= Len(slots) THEN d
    ELSE restoreLayoutSlots(restoreLayoutPlace(d, slots[index + 1], index),
                            slots, index + 1)

slotStrings(config) == [i \in 1..Len(config.slots.elems) |-> config.slots.elems[i].v]

restoreLayout(d, config) ==
    IF ~isValidLayoutConfig(config) THEN d
    ELSE restoreLayoutSlots(restoreLayoutReset(d), slotStrings(config), 0)

\* if (pinned): every value but undefined, null, false, 0, '' is truthy
truthy(value) ==
    /\ value.t \notin {"undefined", "null"}
    /\ value.t = "boolean" => value.v
    /\ value.t = "number" => value.v # 0
    /\ value.t = "string" => value.v # ""

JsBoolean(b) == [t |-> "boolean", v |-> b]

PinnedValues == {JsUndefined, JsBoolean(TRUE), JsBoolean(FALSE)}

(***************************************************************************)
(* The document index.html builds                                          *)
(***************************************************************************)
IndexHtml ==
    [mainView |-> SubSeq(BuiltinArrangement, 1, 2),
     subViews |-> SubSeq(BuiltinArrangement, 3, Len(BuiltinArrangement)),
     panelClass |-> [p \in Sites |->
                       {getPanelClassByType(getPanelTypeByIndex(
                            indexOf(BuiltinArrangement, p)))}],
     webviewClass |-> [p \in Sites |->
                         {getWebviewClassByPanelType(getPanelTypeByIndex(
                              indexOf(BuiltinArrangement, p)))}],
     userAgent |-> [p \in Sites |-> ""]]

(***************************************************************************)
(* Webviews: zoom and volume                                               *)
(***************************************************************************)
\* nothing applied yet
NotApplied == [t |-> "none"]

\* sizes the browser lays the panels out with: one size per kind of slot
Layouts ==
    {[main |-> <<1280, 720>>, secondary |-> <<393, 852>>, sub |-> <<200, 300>>],
     [main |-> <<2600, 1500>>, secondary |-> <<300, 400>>, sub |-> <<80, 100>>]}

\* webview.getBoundingClientRect() under a layout
getBoundingClientRect(layout, d, p) ==
    IF "main-panel" \in d.panelClass[p] THEN layout.main
    ELSE IF "secondary-panel" \in d.panelClass[p] THEN layout.secondary
    ELSE layout.sub

\* mutant: the product is clamped to the range of the global zoom
adjustWebviewZoomClamped(rect, isDesktop, zoom) ==
    LET baseZoom == IF isDesktop
                    THEN calculateDesktopZoom(rect[1], rect[2]).clampedZoom
                    ELSE calculateMobileZoom(rect[1], rect[2]).clampedZoom
    IN  clampZoom(RatMul(baseZoom, zoom))

\* the factor adjustWebviewZoom hands to setZoomFactor
adjustWebviewZoom(rect, isDesktop, zoom) ==
    LET baseZoom == IF isDesktop
                    THEN calculateDesktopZoom(rect[1], rect[2]).clampedZoom
                    ELSE calculateMobileZoom(rect[1], rect[2]).clampedZoom
    IN  RatMul(baseZoom, zoom)

\* mutant: a muted webview is not un-muted
applyVolumeNeverUnmutes(a, volume) ==
    IF volume = Rat(0, 1) THEN [a EXCEPT !.muted = TRUE]
    ELSE [a EXCEPT !.volume = volume]

\* applyVolume on a webview whose audio state is a
applyVolume(a, volume) ==
    IF volume = Rat(0, 1) THEN [a EXCEPT !.muted = TRUE]
    ELSE [muted |-> FALSE, volume |-> volume]

\* webview.classList.contains('webview-desktop')
isDesktopWebview(d, p) == "webview-desktop" \in d.webviewClass[p]

(***************************************************************************)
(* The settings store behind getConfig / setConfig                         *)
(***************************************************************************)
\* the awaited getConfig was rejected
Rejected == [t |-> "rejected"]

GetMsg(key) == [op |-> "get", key |-> key]

SetMsg(key, value) == [op |-> "set", key |-> key, value |-> value]

ZoomValues == {JsUndefined, JsString("1.5"), JsNumber(Rat(3, 2)), JsNumber(Rat(5, 1))}

VolumeValues == {JsUndefined, JsNumber(Rat(0, 1)), JsNumber(Rat(3, 1))}

\* a first launch: nothing persisted
FirstLaunch ==
    [layout |-> JsUndefined, pinned |-> JsUndefined,
     zoom |-> JsUndefined, volume |-> JsUndefined]

StoreContents ==
    {FirstLaunch,
     [layout |-> AsLayoutConfig(<<"threads", "x", "tiktok", "youtube", "instagram">>),
      pinned |-> JsBoolean(FALSE), zoom |-> JsNumber(Rat(3, 2)),
      volume |-> JsNumber(Rat(0, 1))],
     [layout |-> AsLayoutConfig(<<"mastodon", "tiktok", "instagram">>),
      pinned |-> JsBoolean(TRUE), zoom |-> JsString("1.5"),
      volume |-> JsNumber(Rat(3, 1))]}

\* layouts a store answers the startup read with when the webviews are watched
StartupLayoutValues ==
    {JsUndefined, JsObject(JsArray(<<>>)),
     AsLayoutConfig(<<"threads", "x", "tiktok", "youtube", "instagram">>),
     AsLayoutConfig(<<"x", "x">>)}

\* headers clicked when the store or the webviews are watched
ClickTargets == {"tiktok", "x"}

\* webviews whose dom-ready is watched
ReadyTargets == {"youtube", "x"}

\* the key initialize() is awaiting at pc
awaitedKey(at) ==
    IF at = "restoreLayout" THEN "layout"
    ELSE IF at = "restorePinnedState" THEN "pinned"
    ELSE IF at = "restoreZoomConfig" THEN "zoom"
    ELSE "volume"

Awaiting ==
    {"restoreLayout", "restorePinnedState", "restoreZoomConfig", "restoreVolumeConfig"}

(***************************************************************************)
(* Actions of the renderer. They say nothing about store, channel and      *)
(* setCalls: a specification adds what is sent, or leaves them alone.      *)
(***************************************************************************)
SetDocument(d) ==
    /\ mainView' = d.mainView
    /\ subViews' = d.subViews
    /\ panelClass' = d.panelClass
    /\ webviewClass' = d.webviewClass
    /\ userAgent' = d.userAgent

InitRenderer ==
    /\ mainView = IndexHtml.mainView
    /\ subViews = IndexHtml.subViews
    /\ panelClass = IndexHtml.panelClass
    /\ webviewClass = IndexHtml.webviewClass
    /\ userAgent = IndexHtml.userAgent
    /\ isPinned = FALSE
    /\ sentLayout = NotSent
    /\ sentPinned = JsUndefined
    /\ pc = "restoreLayout"
    /\ answer = Pending
    /\ globalZoom = ZOOM_DEFAULT
    /\ globalVolume = VOLUME_DEFAULT
    /\ ready = [p \in Sites |-> FALSE]
    /\ zoomFactor = [p \in Sites |-> NotApplied]
    /\ audio = [p \in Sites |-> [muted |-> FALSE, volume |-> NotApplied]]
    /\ zoomMode = [p \in Sites |-> NotApplied]
    /\ timers = <<>>
    /\ setCalls = 0
    /\ channel = <<GetMsg("layout")>>

\* the session of the webviews has received no permission request
NoPermissionRequest ==
    /\ permissionRequests = {}
    /\ permissionAnswers = <<>>

NoCalculation ==
    /\ panelSize = NotApplied
    /\ zoomCalculation = NotApplied
    /\ controlValue = NotApplied
    /\ controlResult = NotApplied
    /\ NoPermissionRequest

Init ==
    /\ InitRenderer
    /\ store = FirstLaunch
    /\ NoCalculation

\* the values the store can answer the awaited getConfig(key) with
StoreValues ==
    IF pc = "restoreLayout" THEN LayoutValues ELSE PinnedValues

\* the reply of the store resolves the promise initialize() awaits
StoreAnswers ==
    /\ pc \in {"restoreLayout", "restorePinnedState"}
    /\ answer = Pending
    /\ answer' \in StoreValues
    /\ UNCHANGED <<mainView, subViews, panelClass, webviewClass, userAgent,
                   isPinned, sentLayout, sentPinned, pc>>
    /\ UNCHANGED <<controlVars, surfaceVars, calcVars>>

\* initialize(): restoreLayout() resumes after its await; a rejection is
\* thrown out of restoreLayout() and of initialize()
RestoreLayout ==
    /\ pc = "restoreLayout"
    /\ answer # Pending
    /\ SetDocument(IF answer = Rejected THEN Document
                   ELSE restoreLayout(Document, answer))
    /\ pc' = IF answer = Rejected THEN "rejected" ELSE "restorePinnedState"
    /\ answer' = Pending
    /\ UNCHANGED <<isPinned, sentLayout, sentPinned>>
    /\ UNCHANGED <<controlVars, surfaceVars, calcVars>>

\* initialize(): restorePinnedState() resumes after its await
RestorePinnedState ==
    /\ pc = "restorePinnedState"
    /\ answer # Pending
    /\ isPinned' = IF answer # Rejected /\ truthy(answer) THEN TRUE ELSE isPinned
    /\ pc' = IF answer = Rejected THEN "rejected" ELSE "restoreZoomConfig"
    /\ answer' = Pending
    /\ UNCHANGED <<mainView, subViews, panelClass, webviewClass, userAgent,
                   sentLayout, sentPinned>>
    /\ UNCHANGED <<controlVars, surfaceVars, calcVars>>

\* initialize(): restoreZoomConfig() resumes after its await
RestoreZoomConfig ==
    /\ pc = "restoreZoomConfig"
    /\ answer # Pending
    /\ globalZoom' = IF answer.t = "number" THEN clampZoom(answer.v) ELSE globalZoom
    /\ pc' = IF answer = Rejected THEN "rejected" ELSE "restoreVolumeConfig"
    /\ answer' = Pending
    /\ UNCHANGED <<docVars, isPinned, sentLayout, sentPinned, globalVolume>>
    /\ UNCHANGED <<surfaceVars, calcVars>>

\* initialize(): restoreVolumeConfig() resumes after its await, and
\* initialize() runs to its end: initializeWebviews() registers the
\* dom-ready listeners, setupResizeObserver() the resize observer
RestoreVolumeConfig ==
    /\ pc = "restoreVolumeConfig"
    /\ answer # Pending
    /\ globalVolume' = IF answer.t = "number" THEN clampVolume(answer.v)
                       ELSE globalVolume
    /\ pc' = IF answer = Rejected THEN "rejected" ELSE "initialized"
    /\ answer' = Pending
    /\ UNCHANGED <<docVars, isPinned, sentLayout, sentPinned, globalZoom>>
    /\ UNCHANGED <<surfaceVars, calcVars>>

\* a click on the header of a panel; a click is a task of its own and runs
\* when no continuation of a resolved promise is waiting
PanelHeaderClick(target) ==
    LET r == panelHeaderClick(Document, isPinned, target)
    IN  /\ answer = Pending
        /\ SetDocument(r.doc)
        /\ sentLayout' = IF r.saved THEN saveLayoutSlots(r.doc) ELSE sentLayout
        /\ UNCHANGED <<isPinned, sentPinned, pc, answer>>
        /\ UNCHANGED <<controlVars, surfaceVars, calcVars>>

\* a click on the pin button
TogglePin ==
    /\ answer = Pending
    /\ isPinned' = ~isPinned
    /\ sentPinned' = JsBoolean(isPinned')
    /\ UNCHANGED <<mainView, subViews, panelClass, webviewClass, userAgent,
                   sentLayout, pc, answer>>
    /\ UNCHANGED <<controlVars, surfaceVars, calcVars>>

\* mutant: a change of the zoom releases the pin
ChangeGlobalZoomUnpins(delta) ==
    /\ answer = Pending
    /\ globalZoom' = clampZoom(RatAdd(globalZoom, delta))
    /\ \E layout \in Layouts :
         zoomFactor' = [p \in Sites |->
                          adjustWebviewZoom(getBoundingClientRect(layout, Document, p),
                                            isDesktopWebview(Document, p), globalZoom')]
    /\ zoomMode' = [p \in Sites |-> JsBoolean(isDesktopWebview(Document, p))]
    /\ isPinned' = FALSE
    /\ UNCHANGED <<docVars, sentLayout, sentPinned, pc, answer,
                   globalVolume, ready, audio, calcVars>>

\* a click on a zoom button of the settings panel: changeGlobalZoom(delta)
ChangeGlobalZoom(delta) ==
    /\ answer = Pending
    /\ globalZoom' = clampZoom(RatAdd(globalZoom, delta))
    /\ \E layout \in Layouts :
         zoomFactor' = [p \in Sites |->
                          adjustWebviewZoom(getBoundingClientRect(layout, Document, p),
                                            isDesktopWebview(Document, p), globalZoom')]
    /\ zoomMode' = [p \in Sites |-> JsBoolean(isDesktopWebview(Document, p))]
    /\ UNCHANGED <<docVars, isPinned, sentLayout, sentPinned, pc, answer,
                   globalVolume, ready, audio, calcVars>>

\* a click on a volume button of the settings panel: changeGlobalVolume(delta)
ChangeGlobalVolume(delta) ==
    /\ answer = Pending
    /\ globalVolume' = clampVolume(RatAdd(globalVolume, delta))
    /\ audio' = [p \in Sites |-> applyVolume(audio[p], globalVolume')]
    /\ UNCHANGED <<docVars, isPinned, sentLayout, sentPinned, pc, answer,
                   globalZoom, ready, zoomFactor, zoomMode, calcVars>>

\* the dom-ready event of the webview of panel p; its listener exists once
\* initialize() has reached initializeWebviews()
DomReady(p) ==
    /\ answer = Pending
    /\ ~ready[p]
    /\ ready' = [ready EXCEPT ![p] = TRUE]
    /\ IF pc = "initialized"
       THEN \E layout \in Layouts :
              LET isDesktop == isDesktopWebview(Document, p)
              IN  /\ userAgent' = IF isDesktop THEN userAgent
                                  ELSE setUserAgent(userAgent, p, MOBILE_USER_AGENT)
                  /\ zoomFactor' = [zoomFactor EXCEPT ![p] =
                         adjustWebviewZoom(getBoundingClientRect(layout, Document, p),
                                           isDesktop, globalZoom)]
                  /\ zoomMode' = [zoomMode EXCEPT ![p] = JsBoolean(isDesktop)]
                  /\ audio' = [audio EXCEPT ![p] = applyVolume(@, globalVolume)]
       ELSE UNCHANGED <<userAgent, zoomFactor, zoomMode, audio>>
    /\ UNCHANGED <<mainView, subViews, panelClass, webviewClass, isPinned,
                   sentLayout, sentPinned, pc, answer, controlVars, calcVars>>

\* the webview of panel p starts loading another page
Navigate(p) ==
    /\ answer = Pending
    /\ ready[p]
    /\ ready' = [ready EXCEPT ![p] = FALSE]
    /\ UNCHANGED <<docVars, isPinned, sentLayout, sentPinned, pc, answer,
                   controlVars, zoomFactor, audio, zoomMode, calcVars>>

(***************************************************************************)
(* The arrangement engine with a store that answers the reads of layout    *)
(* and pinned with any value; what is sent is kept in sentLayout and       *)
(* sentPinned, the channel is left alone.                                  *)
(***************************************************************************)
Next ==
    \/ StoreAnswers /\ UNCHANGED <<ipcVars, timerVars>>
    \/ RestoreLayout /\ UNCHANGED <<ipcVars, timerVars>>
    \/ RestorePinnedState /\ UNCHANGED <<ipcVars, timerVars>>
    \/ \E target \in Sites : PanelHeaderClick(target) /\ UNCHANGED <<ipcVars, timerVars>>
    \/ TogglePin /\ UNCHANGED <<ipcVars, timerVars>>

Spec == Init /\ [][Next]_vars

(***************************************************************************)
(* Startup with the webviews: the store answers each of the four reads of  *)
(* initialize() with a value or with a rejection, the webviews emit        *)
(* dom-ready whenever their page is loaded.                                *)
(***************************************************************************)
StartupValues ==
    IF pc = "restoreLayout" THEN StartupLayoutValues
    ELSE IF pc = "restorePinnedState" THEN PinnedValues
    ELSE IF pc = "restoreZoomConfig" THEN ZoomValues
    ELSE VolumeValues

\* the awaited getConfig(key) resolves
GetConfigResolves ==
    /\ pc \in Awaiting
    /\ answer = Pending
    /\ answer' \in StartupValues
    /\ UNCHANGED <<docVars, isPinned, sentLayout, sentPinned, pc>>
    /\ UNCHANGED <<controlVars, surfaceVars, calcVars>>

\* the awaited getConfig(key) rejects
GetConfigRejects ==
    /\ pc \in Awaiting
    /\ answer = Pending
    /\ answer' = Rejected
    /\ UNCHANGED <<docVars, isPinned, sentLayout, sentPinned, pc>>
    /\ UNCHANGED <<controlVars, surfaceVars, calcVars>>

NextStartup ==
    \/ GetConfigResolves /\ UNCHANGED <<ipcVars, timerVars>>
    \/ GetConfigRejects /\ UNCHANGED <<ipcVars, timerVars>>
    \/ RestoreLayout /\ UNCHANGED <<ipcVars, timerVars>>
    \/ RestorePinnedState /\ UNCHANGED <<ipcVars, timerVars>>
    \/ RestoreZoomConfig /\ UNCHANGED <<ipcVars, timerVars>>
    \/ RestoreVolumeConfig /\ UNCHANGED <<ipcVars, timerVars>>
    \/ \E target \in ClickTargets : PanelHeaderClick(target) /\ UNCHANGED <<ipcVars, timerVars>>
    \/ \E p \in ReadyTargets : DomReady(p) /\ UNCHANGED <<ipcVars, timerVars>>
    \/ \E p \in ReadyTargets : Navigate(p) /\ UNCHANGED <<ipcVars, timerVars>>

SpecStartup == Init /\ [][NextStartup]_vars

(***************************************************************************)
(* The renderer with its settings store: every getConfig and setConfig is  *)
(* a message on the channel to the main process, which handles the         *)
(* messages in the order they were sent.                                   *)
(***************************************************************************)
InitWrites ==
    /\ InitRenderer
    /\ store \in StoreContents
    /\ NoCalculation

rendererVars ==
    <<docVars, isPinned, sentLayout, sentPinned, pc, controlVars, surfaceVars,
      timerVars, calcVars>>

\* the store handles the oldest message: a read is answered with what the
\* store holds, a write replaces what the store holds
MainHandles ==
    /\ channel # <<>>
    /\ LET msg == Head(channel)
       IN  IF msg.op = "get"
           THEN answer' = store[msg.key] /\ UNCHANGED store
           ELSE store' = [store EXCEPT ![msg.key] = msg.value] /\ UNCHANGED answer
    /\ channel' = Tail(channel)
    /\ UNCHANGED <<setCalls, rendererVars>>

\* mutant: a rejected write of pinned takes the toggle back
MainRejectsRollsBack ==
    /\ channel # <<>>
    /\ Head(channel).op = "set"
    /\ isPinned' = IF Head(channel).key = "pinned" THEN ~isPinned ELSE isPinned
    /\ channel' = Tail(channel)
    /\ UNCHANGED <<store, setCalls, docVars, sentLayout, sentPinned, pc, answer,
                   controlVars, surfaceVars, timerVars, calcVars>>

\* the store rejects the oldest message, a write: the promise of setConfig
\* rejects, and no code of the renderer follows the await on it
MainRejects ==
    /\ channel # <<>>
    /\ Head(channel).op = "set"
    /\ channel' = Tail(channel)
    /\ UNCHANGED <<store, setCalls, answer, rendererVars>>

\* api.getConfig(key) of the next restore of initialize(), if there is one
GetConfig ==
    /\ channel' = IF pc' \in Awaiting THEN Append(channel, GetMsg(awaitedKey(pc')))
                  ELSE channel
    /\ UNCHANGED <<store, setCalls>>

\* mutant: the message is sent twice
SetConfigTwice(key, value) ==
    /\ setCalls < MaxSetCalls
    /\ channel' = channel \o <<SetMsg(key, value), SetMsg(key, value)>>
    /\ setCalls' = setCalls + 1
    /\ UNCHANGED store

\* api.setConfig(key, value)
SetConfig(key, value) ==
    /\ setCalls < MaxSetCalls
    /\ channel' = Append(channel, SetMsg(key, value))
    /\ setCalls' = setCalls + 1
    /\ UNCHANGED store

\* saveLayout() at the end of a swap that was not cut short
SaveLayout(target) ==
    LET r == panelHeaderClick(Document, isPinned, target)
    IN  IF r.saved
        THEN SetConfig("layout", AsLayoutConfig(saveLayoutSlots(r.doc)))
        ELSE UNCHANGED ipcVars

NextWrites ==
    \/ MainHandles
    \/ MainRejects
    \/ RestoreLayout /\ GetConfig /\ UNCHANGED timerVars
    \/ RestorePinnedState /\ GetConfig /\ UNCHANGED timerVars
    \/ RestoreZoomConfig /\ GetConfig /\ UNCHANGED timerVars
    \/ RestoreVolumeConfig /\ GetConfig /\ UNCHANGED timerVars
    \/ \E target \in ClickTargets :
           PanelHeaderClick(target) /\ SaveLayout(target) /\ UNCHANGED timerVars
    \/ TogglePin /\ SetConfig("pinned", JsBoolean(isPinned')) /\ UNCHANGED timerVars
    \/ \E delta \in {ZOOM_STEP, Rat(-1, 10)} :
           /\ ChangeGlobalZoom(delta)
           /\ SetConfig("zoom", JsNumber(globalZoom'))
           /\ UNCHANGED timerVars
    \/ \E delta \in {VOLUME_STEP, Rat(-1, 10)} :
           /\ ChangeGlobalVolume(delta)
           /\ SetConfig("volume", JsNumber(globalVolume'))
           /\ UNCHANGED timerVars

SpecWrites == InitWrites /\ [][NextWrites]_vars

(***************************************************************************)
(* The zoom calculator on its own                                          *)
(***************************************************************************)
Dimensions == {-100, 0, 1, 180, 320, 393, 720, 852, 1280, 1440, 2560, 5000}

InitZoom ==
    /\ InitRenderer
    /\ store = FirstLaunch
    /\ panelSize \in [width : Dimensions, height : Dimensions, isDesktop : BOOLEAN]
    /\ zoomCalculation = NotApplied
    /\ controlValue = NotApplied
    /\ controlResult = NotApplied
    /\ NoPermissionRequest

\* adjustWebviewZoom calls the calculator of the mode with the size of the
\* webview
CalculateZoom ==
    /\ zoomCalculation = NotApplied
    /\ zoomCalculation' =
         IF panelSize.isDesktop
         THEN calculateDesktopZoom(panelSize.width, panelSize.height)
         ELSE calculateMobileZoom(panelSize.width, panelSize.height)
    /\ UNCHANGED <<docVars, isPinned, sentLayout, sentPinned, pc, answer,
                   controlVars, surfaceVars, timerVars, ipcVars, panelSize,
                   utilVars, permissionVars>>

NextZoom == CalculateZoom

SpecZoom == InitZoom /\ [][NextZoom]_vars

(***************************************************************************)
(* The global controls: the reads of zoom and volume are answered with any *)
(* value, the zoom and volume buttons are clicked at any time, the         *)
(* webviews emit dom-ready and the container is resized.                   *)
(***************************************************************************)
\* values a store answers the reads of zoom and of volume with
ControlValues ==
    {JsUndefined, JsNull, JsString("1.5"), JsBoolean(TRUE),
     JsNumber(Rat(-1, 1)), JsNumber(Rat(1, 10)), JsNumber(Rat(3, 2)), JsNumber(Rat(5, 1))}

\* the awaited getConfig(key) resolves
ControlsGetConfig ==
    /\ pc \in Awaiting
    /\ answer = Pending
    /\ answer' \in (IF pc \in {"restoreLayout", "restorePinnedState"}
                    THEN {JsUndefined} ELSE ControlValues)
    /\ UNCHANGED <<docVars, isPinned, sentLayout, sentPinned, pc>>
    /\ UNCHANGED <<controlVars, surfaceVars, calcVars>>

\* the callback of the ResizeObserver setupResizeObserver() creates
ResizeObserved ==
    /\ answer = Pending
    /\ pc = "initialized"
    /\ \E layout \in Layouts :
         zoomFactor' = [p \in Sites |->
                          adjustWebviewZoom(getBoundingClientRect(layout, Document, p),
                                            isDesktopWebview(Document, p), globalZoom)]
    /\ zoomMode' = [p \in Sites |-> JsBoolean(isDesktopWebview(Document, p))]
    /\ UNCHANGED <<docVars, isPinned, sentLayout, sentPinned, pc, answer,
                   controlVars, ready, audio, calcVars>>

\* webviews whose dom-ready is watched with the controls
ControlsReadyTargets == {"x"}

NextControls ==
    \/ ControlsGetConfig /\ UNCHANGED <<ipcVars, timerVars>>
    \/ RestoreLayout /\ UNCHANGED <<ipcVars, timerVars>>
    \/ RestorePinnedState /\ UNCHANGED <<ipcVars, timerVars>>
    \/ RestoreZoomConfig /\ UNCHANGED <<ipcVars, timerVars>>
    \/ RestoreVolumeConfig /\ UNCHANGED <<ipcVars, timerVars>>
    \/ \E delta \in {ZOOM_STEP, Rat(-1, 10)} :
           ChangeGlobalZoom(delta) /\ UNCHANGED <<ipcVars, timerVars>>
    \/ \E delta \in {VOLUME_STEP, Rat(-1, 10)} :
           ChangeGlobalVolume(delta) /\ UNCHANGED <<ipcVars, timerVars>>
    \/ \E p \in ControlsReadyTargets : DomReady(p) /\ UNCHANGED <<ipcVars, timerVars>>
    \/ ResizeObserved /\ UNCHANGED <<ipcVars, timerVars>>

SpecControls == Init /\ [][NextControls]_vars

(***************************************************************************)
(* The re-zoom after a swap: a swap that was not cut short leaves a        *)
(* setTimeout callback behind, which adjusts the zoom of the two webviews  *)
(* it exchanged. All callbacks have the same delay, so they run in the     *)
(* order they were set.                                                    *)
(***************************************************************************)
\* headers clicked when the re-zoom is watched
RezoomTargets == {"youtube", "tiktok", "x"}

\* setTimeout(() => { adjustWebviewZoom(mainWebview, false);
\* adjustWebviewZoom(subWebview, true) }, 100) of swapPanels and of
\* swapWithSecondary: the callback keeps the two webviews of the swap
ScheduleRezoom(target) ==
    LET r == panelHeaderClick(Document, isPinned, target)
    IN  IF r.saved
        THEN /\ Len(timers) < MaxTimers
             /\ timers' = Append(timers,
                    [mainWebview |-> querySelector(Document, "mainView", "main-panel"),
                     subWebview |-> target])
        ELSE UNCHANGED timers

\* the callback of the oldest setTimeout runs
RunTimer ==
    /\ answer = Pending
    /\ timers # <<>>
    /\ LET t == Head(timers)
       IN  /\ \E layout \in Layouts :
                zoomFactor' = [zoomFactor EXCEPT
                    ![t.mainWebview] =
                        adjustWebviewZoom(getBoundingClientRect(layout, Document, t.mainWebview),
                                          FALSE, globalZoom),
                    ![t.subWebview] =
                        adjustWebviewZoom(getBoundingClientRect(layout, Document, t.subWebview),
                                          TRUE, globalZoom)]
           /\ zoomMode' = [zoomMode EXCEPT ![t.mainWebview] = JsBoolean(FALSE),
                                           ![t.subWebview] = JsBoolean(TRUE)]
    /\ timers' = Tail(timers)
    /\ UNCHANGED <<docVars, isPinned, sentLayout, sentPinned, pc, answer,
                   controlVars, ready, audio, calcVars>>

\* the awaited getConfig(key) resolves: the layout is absent or a permutation
\* of the panels, nothing else is persisted
RezoomGetConfig ==
    /\ pc \in Awaiting
    /\ answer = Pending
    /\ answer' \in (IF pc = "restoreLayout"
                    THEN {JsUndefined,
                          AsLayoutConfig(<<"threads", "x", "tiktok", "youtube", "instagram">>)}
                    ELSE {JsUndefined})
    /\ UNCHANGED <<docVars, isPinned, sentLayout, sentPinned, pc>>
    /\ UNCHANGED <<controlVars, surfaceVars, calcVars>>

NextRezoom ==
    \/ RezoomGetConfig /\ UNCHANGED <<ipcVars, timerVars>>
    \/ RestoreLayout /\ UNCHANGED <<ipcVars, timerVars>>
    \/ RestorePinnedState /\ UNCHANGED <<ipcVars, timerVars>>
    \/ RestoreZoomConfig /\ UNCHANGED <<ipcVars, timerVars>>
    \/ RestoreVolumeConfig /\ UNCHANGED <<ipcVars, timerVars>>
    \/ \E target \in RezoomTargets :
           PanelHeaderClick(target) /\ ScheduleRezoom(target) /\ UNCHANGED ipcVars
    \/ RunTimer /\ UNCHANGED ipcVars

SpecRezoom == Init /\ [][NextRezoom]_vars

(***************************************************************************)
(* The utilities of the controls on their own                              *)
(***************************************************************************)
ControlInputs ==
    {Rat(-1, 1), Rat(-1, 10), Rat(0, 1), Rat(1, 10), Rat(1, 4), Rat(29, 100),
     Rat(3, 10), Rat(1, 2), Rat(554, 1000), Rat(555, 1000), Rat(69, 100),
     Rat(7, 10), Rat(1, 1), Rat(3, 2), Rat(2, 1), Rat(21, 10), Rat(5, 1)}

InitUtils ==
    /\ InitRenderer
    /\ store = FirstLaunch
    /\ panelSize = NotApplied
    /\ zoomCalculation = NotApplied
    /\ controlValue \in [x : ControlInputs, y : ControlInputs]
    /\ controlResult = NotApplied
    /\ NoPermissionRequest

\* what the utilities return for a number
utilities(v) ==
    [clampZoom |-> clampZoom(v),
     clampVolume |-> clampVolume(v),
     formatZoomPercent |-> formatZoomPercent(v),
     formatVolumePercent |-> formatVolumePercent(v),
     getVolumeIcon |-> getVolumeIcon(v)]

\* the utilities are called with the two numbers
ApplyUtilities ==
    /\ controlResult = NotApplied
    /\ controlResult' = [x |-> utilities(controlValue.x), y |-> utilities(controlValue.y)]
    /\ UNCHANGED <<docVars, isPinned, sentLayout, sentPinned, pc, answer,
                   controlVars, surfaceVars, timerVars, ipcVars, panelSize,
                   zoomCalculation, controlValue, permissionVars>>

NextUtils == ApplyUtilities

SpecUtils == InitUtils /\ [][NextUtils]_vars

(***************************************************************************)
(* The permission request handler of the session of the webviews           *)
(***************************************************************************)
\* requests watched
MaxRequests == 2

\* mutant: midi is allowed as well
allowedPermissionsWithMidi ==
    <<"media", "geolocation", "notifications", "fullscreen", "pointerLock",
      "clipboard-read", "clipboard-sanitized-write", "midi">>

allowedPermissions ==
    <<"media", "geolocation", "notifications", "fullscreen", "pointerLock",
      "clipboard-read", "clipboard-sanitized-write">>

\* Array.prototype.includes on an array of strings
includes(array, element) == \E i \in DOMAIN array : array[i] = element

\* names a page can ask a permission under
PermissionNames ==
    {"media", "geolocation", "notifications", "fullscreen", "pointerLock",
     "clipboard-read", "clipboard-sanitized-write",
     "midi", "openExternal", "clipboard-write", "Media", "unknown"}

InitPermissions ==
    /\ InitRenderer
    /\ store = FirstLaunch
    /\ NoCalculation

\* a page of a webview asks for a permission: the session has a request
\* to hand to its handler
RequestPermission(permission) ==
    /\ Cardinality(permissionRequests) + Len(permissionAnswers) < MaxRequests
    /\ permissionRequests' =
         permissionRequests \cup
           {[id |-> Cardinality(permissionRequests) + Len(permissionAnswers) + 1,
             permission |-> permission]}
    /\ UNCHANGED <<docVars, isPinned, sentLayout, sentPinned, pc, answer,
                   controlVars, surfaceVars, timerVars, ipcVars, panelSize,
                   zoomCalculation, utilVars, permissionAnswers>>

\* the handler runs for a request and calls its callback
PermissionRequestHandler ==
    /\ \E request \in permissionRequests :
         /\ permissionRequests' = permissionRequests \ {request}
         /\ permissionAnswers' =
              Append(permissionAnswers,
                     [id |-> request.id, permission |-> request.permission,
                      permissionGranted |->
                          IF includes(allowedPermissions, request.permission)
                          THEN TRUE ELSE FALSE])
    /\ UNCHANGED <<docVars, isPinned, sentLayout, sentPinned, pc, answer,
                   controlVars, surfaceVars, timerVars, ipcVars, panelSize,
                   zoomCalculation, utilVars>>

NextPermissions ==
    \/ \E permission \in PermissionNames : RequestPermission(permission)
    \/ PermissionRequestHandler

SpecPermissions == InitPermissions /\ [][NextPermissions]_vars

(***************************************************************************)
(* Properties                                                              *)
(***************************************************************************)
Range(q) == {q[i] : i \in 1..Len(q)}

SubSequence(a) == SubSeq(a, 3, Len(a))

\* a click can be handled: no continuation of initialize() is waiting
Idle == answer = Pending

\* C1: in an unpinned state with a Main panel, a click on the header of the
\* site at Sub index i makes that site Main, puts the former Main site at
\* Sub index i (the end of the Sub sequence when i was last) and leaves the
\* Secondary and every other Sub where it was; so the built-in arrangement
\* becomes <<x, tiktok, youtube, instagram, threads>> on a click on x.
C1_SwapMainWithSub ==
    [][\A i \in 3..Len(currentArrangement) :
         (/\ ~isPinned
          /\ currentArrangement[1] # ""
          /\ PanelHeaderClick(currentArrangement[i]))
         => /\ Len(currentArrangement') = Len(currentArrangement)
            /\ currentArrangement'[1] = currentArrangement[i]
            /\ currentArrangement'[i] = currentArrangement[1]
            /\ \A j \in 1..Len(currentArrangement) :
                 j \notin {1, i} => currentArrangement'[j] = currentArrangement[j]]_vars

\* C2: while pinned, no header click (on a Sub panel or on the Secondary
\* panel) changes the arrangement.
C2_PinnedGuard ==
    [][(isPinned /\ \E target \in Sites : PanelHeaderClick(target))
       => /\ currentArrangement' = currentArrangement
          /\ Document' = Document
          /\ sentLayout' = sentLayout]_vars

C2_Witness ==
    /\ isPinned
    /\ Idle
    /\ currentArrangement[1] # ""
    /\ currentArrangement[2] # ""
    /\ Len(currentArrangement) > 2

\* C3 as stated: in an unpinned state, swapMainWithSub(x) twice in a row
\* for a site x in a Sub slot gives back the arrangement from before.
C3_DoubleSwapRestores ==
    (Idle /\ ~isPinned) =>
        \A i \in 3..Len(currentArrangement) :
            LET x == currentArrangement[i]
                r1 == swapMainWithSub(Document, isPinned, x)
                r2 == swapMainWithSub(r1.doc, isPinned, x)
            IN  saveLayoutSlots(r2.doc) = currentArrangement

\* C3 as amended: the second swapMainWithSub(x) is a no-op, since x has left
\* its Sub slot: the document stays as the first call left it and nothing
\* is saved; when there is a Main panel that is x as Main, not the
\* arrangement from before.
C3_SecondSwapIsNoOp ==
    (Idle /\ ~isPinned) =>
        \A i \in 3..Len(currentArrangement) :
            LET x == currentArrangement[i]
                r1 == swapMainWithSub(Document, isPinned, x)
                r2 == swapMainWithSub(r1.doc, isPinned, x)
            IN  /\ r2.doc = r1.doc
                /\ ~r2.saved
                /\ currentArrangement[1] # "" =>
                     /\ saveLayoutSlots(r1.doc)[1] = x
                     /\ saveLayoutSlots(r1.doc) # currentArrangement

C3_Witness ==
    /\ Idle
    /\ ~isPinned
    /\ sentLayout = currentArrangement
    /\ currentArrangement[1] \notin {"", "youtube"}
    /\ Len(currentArrangement) > 2

\* C4: in every reachable state exactly one panel occupies the Main slot.
C4_ExactlyOneMain ==
    /\ Cardinality({p \in Sites : "main-panel" \in panelClass[p]}) = 1
    /\ currentArrangement[1] # ""

\* C5: in every reachable state no site occupies more than one slot:
\* the arrangement lists no non-empty site twice.
C5_SitesUnique ==
    \A i, j \in 1..Len(currentArrangement) :
        (i # j /\ currentArrangement[i] # "")
        => currentArrangement[i] # currentArrangement[j]

PresentationMode(p) ==
    IF "webview-desktop" \in webviewClass[p] THEN "Desktop" ELSE "Mobile"

\* C6: in every reachable state the surface of the Main panel is in
\* Desktop mode and the surface of the Secondary panel and of every Sub
\* panel is in Mobile mode.
C6_ModeFollowsSlot ==
    \A p \in Sites :
        /\ "main-panel" \in panelClass[p] => PresentationMode(p) = "Desktop"
        /\ panelClass[p] \cap {"secondary-panel", "sub-panel"} # {}
             => PresentationMode(p) = "Mobile"

\* the site identifiers an arrangement lists; the empty string stands for
\* an absent panel and is no site identifier
SitesOf(a) == Range(a) \ {""}

\* C7: no header click, effective or not, changes the set of site
\* identifiers of the arrangement or its length.
C7_SwapsKeepSites ==
    [][(\E target \in Sites : PanelHeaderClick(target))
       => /\ SitesOf(currentArrangement') = SitesOf(currentArrangement)
          /\ Len(currentArrangement') = Len(currentArrangement)]_vars

C7_Witness ==
    /\ pc = "restoreLayout"
    /\ sentLayout = currentArrangement
    /\ currentArrangement[1] = "tiktok"
    /\ currentArrangement[2] = "x"

\* C8: in an unpinned state with a Main and a Secondary panel,
\* swapMainWithSecondary() makes the old Secondary Main and the old Main
\* Secondary and leaves the Sub sequence alone; a second one gives back the
\* arrangement from before.
C8_SwapMainWithSecondary ==
    (Idle /\ ~isPinned /\ currentArrangement[1] # "" /\ currentArrangement[2] # "") =>
        LET r1 == swapMainWithSecondary(Document, isPinned, currentArrangement[2])
            a1 == saveLayoutSlots(r1.doc)
            r2 == swapMainWithSecondary(r1.doc, isPinned, a1[2])
        IN  /\ a1 = <<currentArrangement[2], currentArrangement[1]>>
                    \o SubSequence(currentArrangement)
            /\ saveLayoutSlots(r2.doc) = currentArrangement

\* the slot class restoreLayout gives the panel named at position i (from 1)
SlotClassAt(i) ==
    IF i = 1 THEN "main-panel" ELSE IF i = 2 THEN "secondary-panel" ELSE "sub-panel"

\* the known sites named at positions 3.., each at its last naming
NamedSubs(a) ==
    LET last(i) == /\ i >= 3
                   /\ a[i] \in Sites
                   /\ \A j \in (i + 1)..Len(a) : a[j] # a[i]
        positions == SelectSeq([i \in 1..Len(a) |-> i], last)
    IN  [k \in 1..Len(positions) |-> a[positions[k]]]

\* a[i] when a has a position i naming a known site, else the empty string
NamedAt(a, i) == IF i <= Len(a) /\ a[i] \in Sites THEN a[i] ELSE ""

\* C9: restoring a validated layout a leaves every known panel with exactly
\* the slots of the positions a names it at (Main for a[0], Secondary for
\* a[1], Sub from a[2] on) and no slot from before, so a known site a does
\* not name has no slot; unknown identifiers are skipped; the Sub sequence
\* is in the order of a; and when a names no known site twice the
\* arrangement is a with every unknown identifier left out.
C9_ApplyArrangement ==
    [][(pc = "restoreLayout" /\ pc' # "restoreLayout" /\ isValidLayoutConfig(answer))
       => LET a == slotStrings(answer)
              namedOnce == \A i, j \in 1..Len(a) :
                              (i # j /\ a[i] \in Sites) => a[i] # a[j]
          IN  /\ \A p \in Sites :
                   panelClass'[p] = {SlotClassAt(i) : i \in {j \in 1..Len(a) : a[j] = p}}
              /\ SubSequence(currentArrangement') = NamedSubs(a)
              /\ namedOnce =>
                   currentArrangement' = <<NamedAt(a, 1), NamedAt(a, 2)>> \o NamedSubs(a)]_vars

C9_Witness ==
    /\ pc = "restorePinnedState"
    /\ SubSequence(currentArrangement) = <<"threads", "x">>
    /\ \E p \in Sites : panelClass[p] = {}

\* C10: while only swaps have acted on the built-in arrangement, the slots
\* last handed to setConfig are the current arrangement, and restoring them
\* into the document of a fresh start gives the same arrangement.
C10_RoundTrip ==
    pc = "restoreLayout" =>
        /\ sentLayout # NotSent => sentLayout = currentArrangement
        /\ saveLayoutSlots(restoreLayout(IndexHtml, AsLayoutConfig(currentArrangement)))
             = currentArrangement

C10_Witness ==
    /\ pc = "restoreLayout"
    /\ sentLayout = currentArrangement
    /\ currentArrangement[1] \notin {"youtube", "tiktok"}
    /\ currentArrangement[2] \notin {"youtube", "tiktok"}
    /\ currentArrangement[3] # "x"

\* a record with a field slots that is a non-empty sequence of strings
IsArrangementRecord(c) ==
    /\ c.t = "object"
    /\ c.slots.t = "array"
    /\ c.slots.elems # <<>>
    /\ {i \in 1..Len(c.slots.elems) : c.slots.elems[i].t # "string"} = {}

\* C11: when the store answers the startup read of layout with an absent or
\* structurally invalid value, the restore step changes no slot class, no
\* place of a panel, no webview class and no user agent, goes on to the
\* restore of the pin flag without an error, and, when no swap came before
\* it, leaves the built-in arrangement in place.
C11_InvalidLayoutKeepsDefault ==
    [][(pc = "restoreLayout" /\ pc' # "restoreLayout" /\ ~IsArrangementRecord(answer))
       => /\ Document' = Document
          /\ pc' = "restorePinnedState"
          /\ sentLayout = NotSent => currentArrangement' = BuiltinArrangement]_vars

C11_Witness ==
    /\ pc = "restoreLayout"
    /\ answer = JsObject(JsArray(<<>>))
    /\ sentLayout = NotSent

\* C12: the validator accepts a value exactly when it is a record with a
\* field slots that is a non-empty sequence of strings: it rejects null,
\* undefined, a record without slots, slots that are no sequence, the empty
\* sequence and a sequence with a non-string element, and it accepts
\* identifiers of no known site.
C12_IsValidArrangement ==
    /\ (pc = "restoreLayout" /\ answer # Pending)
         => (isValidLayoutConfig(answer) <=> IsArrangementRecord(answer))
    /\ ~isValidLayoutConfig(JsNull)
    /\ ~isValidLayoutConfig(JsUndefined)
    /\ ~isValidLayoutConfig(JsObject(JsUndefined))
    /\ ~isValidLayoutConfig(JsObject(JsString("youtube")))
    /\ ~isValidLayoutConfig(JsObject(JsArray(<<>>)))
    /\ ~isValidLayoutConfig(JsObject(JsArray(<<JsString("a"), JsNumber(1)>>)))
    /\ isValidLayoutConfig(AsLayoutConfig(<<"a", "b">>))
    /\ isValidLayoutConfig(AsLayoutConfig(<<"mastodon", "tiktok", "instagram">>))

C12_Witness ==
    /\ pc = "restoreLayout"
    /\ answer = AsLayoutConfig(<<"mastodon", "tiktok", "instagram">>)

\* C17: no header click swaps panels before initialize() has restored the
\* arrangement and the pin flag, and the restore of the arrangement never
\* replaces an arrangement a swap produced.
C17_RestoreBeforeClicks ==
    [][/\ ((\E target \in Sites : PanelHeaderClick(target)) /\ Document' # Document)
            => pc \notin {"restoreLayout", "restorePinnedState"}
       /\ (pc = "restoreLayout" /\ pc' # "restoreLayout" /\ sentLayout # NotSent)
            => currentArrangement' = currentArrangement]_vars

\* the in-memory state of the renderer
InMemory ==
    <<Document, isPinned, globalZoom, globalVolume, zoomFactor, audio,
      sentLayout, sentPinned, pc>>

\* the store fulfils the oldest message, a write of layout, and no other
\* write of layout is outstanding
LastLayoutWriteResolves ==
    /\ channel # <<>>
    /\ Head(channel).op = "set"
    /\ Head(channel).key = "layout"
    /\ MainHandles
    /\ \A i \in 1..Len(channel') :
         ~(channel'[i].op = "set" /\ channel'[i].key = "layout")

LayoutWrites(ch) == SelectSeq(ch, LAMBDA m : m.op = "set" /\ m.key = "layout")

\* C14: a header click that changes the arrangement issues exactly one
\* setConfig('layout', {slots}) and its slots are the arrangement as the
\* click left it; a click that changes nothing, as every click in a pinned
\* state or without a Main panel, issues no write of layout.
C14_OneWritePerSwap ==
    [][\A target \in Sites :
         PanelHeaderClick(target)
         => /\ Document' # Document
                 => /\ channel' = Append(channel,
                                         SetMsg("layout", AsLayoutConfig(currentArrangement')))
                    /\ setCalls' = setCalls + 1
            /\ Document' = Document
                 => Len(LayoutWrites(channel')) <= Len(LayoutWrites(channel))
            /\ (isPinned \/ currentArrangement[1] = "") => Document' = Document]_vars

C14_Witness ==
    /\ Len(channel) = 2
    /\ channel[1].op = "set" /\ channel[1].key = "layout"
    /\ channel[2].op = "set" /\ channel[2].key = "layout"
    /\ channel[2].value = AsLayoutConfig(currentArrangement)
    /\ channel[1].value # channel[2].value

\* next await of initialize() after the one at
NextRestore(at) ==
    IF at = "restoreLayout" THEN "restorePinnedState"
    ELSE IF at = "restorePinnedState" THEN "restoreZoomConfig"
    ELSE IF at = "restoreZoomConfig" THEN "restoreVolumeConfig"
    ELSE "initialized"

\* C15: when a startup read rejects, initialize() goes on as if the value
\* were absent: nothing of the state changes and the next restore, or the
\* registration of the dom-ready and resize handlers, follows.
C15_RejectedReadIsAbsence ==
    [][(answer = Rejected /\ pc' # pc)
       => /\ pc' = NextRestore(pc)
          /\ <<Document, isPinned, globalZoom, globalVolume>>'
               = <<Document, isPinned, globalZoom, globalVolume>>]_vars

\* C16: when the store settles a write, by rejecting it as by storing it,
\* nothing of the in-memory state changes: the arrangement, the pin flag,
\* the zoom and the volume stay as the operation left them, and the
\* operations that follow find the same state in both cases.
C16_RejectedWriteKeepsState ==
    [][(channel # <<>> /\ Head(channel).op = "set" /\ channel' = Tail(channel))
       => /\ InMemory' = InMemory
          /\ answer' = answer]_vars

C16_Witness ==
    /\ pc = "initialized"
    /\ channel = <<>>
    /\ store = FirstLaunch
    /\ isPinned
    /\ sentLayout = currentArrangement

\* C18: every dom-ready of a webview leaves the webview with its zoom
\* computed for its mode and size and multiplied by the global zoom, with
\* the global volume applied and, in Mobile mode, with the mobile user
\* agent.
C18_ReadyEventApplies ==
    [][\A p \in Sites :
         (~ready[p] /\ ready'[p])
         => /\ \E layout \in Layouts :
                 zoomFactor'[p] =
                     adjustWebviewZoom(getBoundingClientRect(layout, Document, p),
                                       PresentationMode(p) = "Desktop", globalZoom)
            /\ audio'[p] = applyVolume(audio[p], globalVolume)
            /\ PresentationMode(p) = "Mobile" => userAgent'[p] = MOBILE_USER_AGENT]_vars

\* q is the fraction a / b, b > 0
IsRatio(q, a, b) == q.n * b = a * q.d

\* q is at most the fraction a / b, b > 0
AtMostRatio(q, a, b) == q.n * b <= a * q.d

RefWidth == IF panelSize.isDesktop THEN 1280 ELSE 393

RefHeight == IF panelSize.isDesktop THEN 720 ELSE 852

ClampMin == IF panelSize.isDesktop THEN Rat(1, 2) ELSE Rat(1, 4)

ClampMax == IF panelSize.isDesktop THEN Rat(2, 1) ELSE Rat(1, 1)

\* C19: for a positive width and height the raw factor is the smaller of
\* width / refWidth and height / refHeight, with reference 1280 x 720 for
\* Desktop and 393 x 852 for Mobile, and the clamped factor is the raw
\* factor clamped to [0.5, 2.0] for Desktop and to [0.25, 1.0] for Mobile;
\* Desktop 1280 x 720 gives 1.0, 2560 x 1440 gives 2.0, 320 x 180 gives 0.5.
C19_CalculateZoom ==
    /\ (zoomCalculation # NotApplied /\ panelSize.width > 0 /\ panelSize.height > 0)
         => LET raw == zoomCalculation.zoomFactor
                clamped == zoomCalculation.clampedZoom
            IN  /\ \/ IsRatio(raw, panelSize.width, RefWidth)
                   \/ IsRatio(raw, panelSize.height, RefHeight)
                /\ AtMostRatio(raw, panelSize.width, RefWidth)
                /\ AtMostRatio(raw, panelSize.height, RefHeight)
                /\ clamped = IF RatLess(raw, ClampMin) THEN ClampMin
                             ELSE IF RatLess(ClampMax, raw) THEN ClampMax
                             ELSE raw
                /\ ~RatLess(clamped, ClampMin)
                /\ ~RatLess(ClampMax, clamped)
    /\ calculateDesktopZoom(1280, 720) = [zoomFactor |-> Rat(1, 1), clampedZoom |-> Rat(1, 1)]
    /\ calculateDesktopZoom(2560, 1440).clampedZoom = Rat(2, 1)
    /\ calculateDesktopZoom(320, 180).clampedZoom = Rat(1, 2)

C19_Witness ==
    /\ zoomCalculation # NotApplied
    /\ panelSize = [width |-> 2560, height |-> 720, isDesktop |-> TRUE]
    /\ zoomCalculation.clampedZoom = Rat(1, 1)

\* C20 as stated: for a width or height that is zero or negative the raw
\* factor is 0 and the clamped factor is the minimum of the mode.
C20_NonPositiveGivesZero ==
    (zoomCalculation # NotApplied /\ (panelSize.width <= 0 \/ panelSize.height <= 0))
    => /\ zoomCalculation.zoomFactor = Rat(0, 1)
       /\ zoomCalculation.clampedZoom = ClampMin

\* C20 as amended: for a width or height that is zero or negative the
\* calculator returns, its clamped factor is the minimum of the mode, and
\* its raw factor is the smaller axis ratio as for any size: 0 when no
\* dimension is negative, negative when one is.
C20_NonPositiveGivesMinimum ==
    (zoomCalculation # NotApplied /\ (panelSize.width <= 0 \/ panelSize.height <= 0))
    => LET raw == zoomCalculation.zoomFactor
       IN  /\ zoomCalculation.clampedZoom = ClampMin
           /\ \/ IsRatio(raw, panelSize.width, RefWidth)
              \/ IsRatio(raw, panelSize.height, RefHeight)
           /\ AtMostRatio(raw, panelSize.width, RefWidth)
           /\ AtMostRatio(raw, panelSize.height, RefHeight)
           /\ (panelSize.width >= 0 /\ panelSize.height >= 0) <=> raw = Rat(0, 1)
           /\ (panelSize.width < 0 \/ panelSize.height < 0) <=> RatLess(raw, Rat(0, 1))

C20_Witness ==
    /\ zoomCalculation # NotApplied
    /\ panelSize = [width |-> -100, height |-> 852, isDesktop |-> FALSE]
    /\ zoomCalculation.clampedZoom = Rat(1, 4)

\* no zoom button has been clicked
NoZoomChange == \A p \in Sites : zoomMode[p] = NotApplied

\* no volume button has been clicked
NoVolumeChange == \A p \in Sites : audio[p] = [muted |-> FALSE, volume |-> NotApplied]

\* C21: in every state globalZoom is in [0.5, 2.0] and globalVolume in
\* [0.0, 1.0], whatever number was restored and whatever steps were made; a
\* restore that reads a value that is no number leaves globalZoom and
\* globalVolume as they are, which is the default 1.0 and 0.5 when no button
\* was clicked before.
C21_ControlsInRange ==
    /\ [](/\ ~RatLess(globalZoom, Rat(1, 2)) /\ ~RatLess(Rat(2, 1), globalZoom)
          /\ ~RatLess(globalVolume, Rat(0, 1)) /\ ~RatLess(Rat(1, 1), globalVolume))
    /\ [][(pc = "restoreZoomConfig" /\ pc' # pc /\ answer.t # "number")
           => /\ globalZoom' = globalZoom
              /\ (NoZoomChange => globalZoom' = Rat(1, 1))]_vars
    /\ [][(pc = "restoreVolumeConfig" /\ pc' # pc /\ answer.t # "number")
           => /\ globalVolume' = globalVolume
              /\ (NoVolumeChange => globalVolume' = Rat(1, 2))]_vars

C21_Witness ==
    /\ pc = "initialized"
    /\ globalZoom = Rat(2, 1)
    /\ globalVolume = Rat(0, 1)
    /\ zoomFactor["youtube"] = Rat(4, 1)
    /\ audio["x"].muted

\* some size of the panel of p gives the factor f for the mode and the zoom
IsProductFor(f, p, isDesktop, zoom) ==
    \E layout \in Layouts :
        LET rect == getBoundingClientRect(layout, Document', p)
            calc == IF isDesktop THEN calculateDesktopZoom(rect[1], rect[2])
                    ELSE calculateMobileZoom(rect[1], rect[2])
        IN  f = RatMul(calc.clampedZoom, zoom)

\* C22: whenever a zoom factor is set on a webview, it is the clamped factor
\* of the calculator of the mode for the size of the webview, multiplied by
\* the global zoom, and nothing clamps the product: it lies in [0.25, 4.0]
\* for Desktop and in [0.125, 2.0] for Mobile.
C22_AppliedFactorIsProduct ==
    [][\A p \in Sites :
         (zoomFactor'[p] # zoomFactor[p] \/ zoomMode'[p] # zoomMode[p])
         => /\ IsProductFor(zoomFactor'[p], p, zoomMode'[p].v, globalZoom')
            /\ IF zoomMode'[p].v
               THEN /\ ~RatLess(zoomFactor'[p], Rat(1, 4))
                    /\ ~RatLess(Rat(4, 1), zoomFactor'[p])
               ELSE /\ ~RatLess(zoomFactor'[p], Rat(1, 8))
                    /\ ~RatLess(Rat(2, 1), zoomFactor'[p])]_vars

C22_Witness ==
    /\ globalZoom = Rat(3, 2)
    /\ zoomMode["youtube"] = JsBoolean(TRUE)
    /\ zoomFactor["youtube"] = Rat(3, 1)
    /\ zoomMode["x"] = JsBoolean(FALSE)
    /\ zoomFactor["x"] = Rat(3, 8)

\* C27: once no setTimeout callback is waiting, every webview whose zoom
\* was computed had it last computed for the mode of the slot its panel is
\* in: Desktop in Main, Mobile elsewhere.
C27_RezoomForCurrentMode ==
    timers = <<>>
    => \A p \in Sites :
         zoomMode[p] # NotApplied
         => zoomMode[p] = JsBoolean("main-panel" \in panelClass[p])

\* a <= b
RatLeq(a, b) == ~RatLess(b, a)

\* c is v clamped to [lo, hi]
IsClamped(c, v, lo, hi) ==
    /\ (RatLeq(lo, v) /\ RatLeq(v, hi)) => c = v
    /\ RatLess(v, lo) => c = lo
    /\ RatLess(hi, v) => c = hi

\* C23: clampZoom and clampVolume return a value of the range unchanged,
\* the minimum for a value below it and the maximum for a value above it;
\* clamping the result again changes nothing, and x <= y gives
\* clamp(x) <= clamp(y).
C23_ClampIdempotentMonotonic ==
    controlResult # NotApplied
    => LET x == controlValue.x
           y == controlValue.y
           rx == controlResult.x
           ry == controlResult.y
       IN  /\ IsClamped(rx.clampZoom, x, Rat(1, 2), Rat(2, 1))
           /\ IsClamped(rx.clampVolume, x, Rat(0, 1), Rat(1, 1))
           /\ clampZoom(rx.clampZoom) = rx.clampZoom
           /\ clampVolume(rx.clampVolume) = rx.clampVolume
           /\ RatLeq(x, y) => /\ RatLeq(rx.clampZoom, ry.clampZoom)
                              /\ RatLeq(rx.clampVolume, ry.clampVolume)

C23_Witness ==
    /\ controlValue = [x |-> Rat(-1, 10), y |-> Rat(21, 10)]
    /\ controlResult # NotApplied
    /\ controlResult.x.clampVolume = Rat(0, 1)
    /\ controlResult.y.clampZoom = Rat(2, 1)

\* C24: for a volume in [0, 1] the icon is mute exactly when the volume is
\* 0, low exactly when 0 < v < 0.3, mid exactly when 0.3 <= v < 0.7 and high
\* exactly when v >= 0.7.
C24_VolumeIconBands ==
    (controlResult # NotApplied
     /\ RatLeq(Rat(0, 1), controlValue.x) /\ RatLeq(controlValue.x, Rat(1, 1)))
    => LET v == controlValue.x
           icon == controlResult.x.getVolumeIcon
       IN  /\ icon \in {"mute", "low", "mid", "high"}
           /\ icon = "mute" <=> v = Rat(0, 1)
           /\ icon = "low" <=> (RatLess(Rat(0, 1), v) /\ RatLess(v, Rat(3, 10)))
           /\ icon = "mid" <=> (RatLeq(Rat(3, 10), v) /\ RatLess(v, Rat(7, 10)))
           /\ icon = "high" <=> RatLeq(Rat(7, 10), v)

C24_Witness ==
    /\ controlValue.x = Rat(3, 10)
    /\ controlResult # NotApplied
    /\ controlResult.x.getVolumeIcon = "mid"

\* text is the integer n nearest to 100 * v, a half going up, followed by %
IsPercentOf(text, v) ==
    \E n \in 0..200 :
        /\ text = ToString(n) \o "%"
        /\ (2 * n - 1) * v.d <= 200 * v.n
        /\ 200 * v.n < (2 * n + 1) * v.d

\* C25: for a value in [0, 2] formatZoomPercent and formatVolumePercent
\* return the integer nearest to 100 times the value, a half going up,
\* followed by %: 0.555 gives 56%, 0.554 gives 55%, 0 gives 0%, 1.5 gives
\* 150%.
C25_FormatPercent ==
    /\ (controlResult # NotApplied
        /\ RatLeq(Rat(0, 1), controlValue.x) /\ RatLeq(controlValue.x, Rat(2, 1)))
       => /\ IsPercentOf(controlResult.x.formatZoomPercent, controlValue.x)
          /\ IsPercentOf(controlResult.x.formatVolumePercent, controlValue.x)
    /\ formatZoomPercent(Rat(555, 1000)) = "56%"
    /\ formatZoomPercent(Rat(554, 1000)) = "55%"
    /\ formatZoomPercent(Rat(0, 1)) = "0%"
    /\ formatZoomPercent(Rat(3, 2)) = "150%"

C25_Witness ==
    /\ controlValue.x = Rat(555, 1000)
    /\ controlResult # NotApplied
    /\ controlResult.x.formatVolumePercent = "56%"

\* the messages a step appends to the channel
Appended == SubSeq(channel', Len(channel') - (setCalls' - setCalls) + 1, Len(channel'))

\* C26: the controls and the arrangement are independent. A step that calls
\* setConfig appends one write: a write of pinned, zoom or volume carries the
\* control as the step left it and comes with no change of the arrangement
\* nor of the two other controls; a write of layout carries the arrangement as
\* the step left it and comes with no change of pinned, zoom and volume. A
\* step outside initialize() that calls no setConfig changes none of them.
C26_ControlsAndArrangementIndependent ==
    /\ [][setCalls' # setCalls
           => /\ setCalls' = setCalls + 1
              /\ channel' = Append(channel, Appended[1])
              /\ Appended[1].op = "set"
              /\ pc' = pc
              /\ Appended[1].key = "pinned"
                   => /\ Appended[1].value = JsBoolean(isPinned')
                      /\ isPinned' = ~isPinned
                      /\ Document' = Document
                      /\ UNCHANGED <<globalZoom, globalVolume>>
              /\ Appended[1].key = "zoom"
                   => /\ Appended[1].value = JsNumber(globalZoom')
                      /\ Document' = Document
                      /\ UNCHANGED <<isPinned, globalVolume>>
              /\ Appended[1].key = "volume"
                   => /\ Appended[1].value = JsNumber(globalVolume')
                      /\ Document' = Document
                      /\ UNCHANGED <<isPinned, globalZoom>>
              /\ Appended[1].key = "layout"
                   => /\ Appended[1].value = AsLayoutConfig(currentArrangement')
                      /\ UNCHANGED <<isPinned, globalZoom, globalVolume>>]_vars
    /\ [][(setCalls' = setCalls /\ pc' = pc)
           => /\ currentArrangement' = currentArrangement
              /\ UNCHANGED <<isPinned, globalZoom, globalVolume>>]_vars

\* a swap and a change of the zoom were written, each under its own key, and
\* the store holds both
C26_Witness ==
    /\ pc = "initialized"
    /\ setCalls = 2
    /\ channel = <<>>
    /\ store.layout = AsLayoutConfig(currentArrangement)
    /\ currentArrangement[1] = "x"
    /\ store.zoom = JsNumber(globalZoom)
    /\ globalZoom = Rat(11, 10)
    /\ store.pinned = JsUndefined
    /\ ~isPinned

\* the calls of the callback made for the request id
AnswersTo(id) == {i \in DOMAIN permissionAnswers : permissionAnswers[i].id = id}

\* C28: the callback of a request the handler has run for was called exactly
\* once and that of a request still with the session not yet; the call grants
\* the permission if and only if its name is one of media, geolocation,
\* notifications, fullscreen, pointerLock, clipboard-read and
\* clipboard-sanitized-write. Each run of the handler makes one call.
C28_PermissionAnsweredOnce ==
    /\ [](/\ \A id \in 1..(Cardinality(permissionRequests) + Len(permissionAnswers)) :
                 IF \E request \in permissionRequests : request.id = id
                 THEN AnswersTo(id) = {}
                 ELSE Cardinality(AnswersTo(id)) = 1
           /\ \A i \in DOMAIN permissionAnswers :
                 permissionAnswers[i].permissionGranted
                 <=> permissionAnswers[i].permission \in
                       {"media", "geolocation", "notifications", "fullscreen",
                        "pointerLock", "clipboard-read", "clipboard-sanitized-write"})
    /\ [][permissionRequests' \subseteq permissionRequests
           => /\ Len(permissionAnswers') = Len(permissionAnswers) + 1
              /\ \E request \in permissionRequests :
                   /\ permissionRequests' = permissionRequests \ {request}
                   /\ permissionAnswers'[Len(permissionAnswers')].id = request.id
                   /\ permissionAnswers'[Len(permissionAnswers')].permission
                        = request.permission]_vars

\* a request for the clipboard was granted and one for midi denied
C28_Witness ==
    /\ permissionRequests = {}
    /\ Len(permissionAnswers) = 2
    /\ permissionAnswers[1].permission = "clipboard-sanitized-write"
    /\ permissionAnswers[1].permissionGranted
    /\ permissionAnswers[2].permission = "midi"
    /\ ~permissionAnswers[2].permissionGranted

\* the user agent of a presentation mode: the mobile one for Mobile, the
\* default of the webview, written as the empty string, for Desktop
UserAgentOfMode(mode) == IF mode = "Desktop" THEN "" ELSE MOBILE_USER_AGENT

\* the mode of the slot of a panel carrying the slot classes classes
ModeOfSlot(classes) == IF "main-panel" \in classes THEN "Desktop" ELSE "Mobile"

\* C29: after a swap that changed the arrangement the surface that left Main
\* has the mobile user agent and the surface that entered Main the empty
\* one; after restoreLayout has applied a valid layout the user agent of
\* every surface it assigned a slot to is that of the mode of the slot,
\* whatever it was before.
C29_UserAgentFollowsMode ==
    /\ [][\A target \in Sites :
             (PanelHeaderClick(target) /\ currentArrangement' # currentArrangement)
             => /\ userAgent'[currentArrangement[1]] = MOBILE_USER_AGENT
                /\ userAgent'[currentArrangement'[1]] = ""]_vars
    /\ [][(pc = "restoreLayout" /\ pc' = "restorePinnedState"
            /\ isValidLayoutConfig(answer))
           => \A p \in Sites :
                panelClass'[p] # {}
                => userAgent'[p] = UserAgentOfMode(ModeOfSlot(panelClass'[p]))]_vars

\* the panels inside view that carry the slot class class
PanelsIn(view, class) ==
    {p \in Sites : class \in panelClass[p] /\ \E i \in DOMAIN view : view[i] = p}

\* what restoreLayout makes of the document when it is given the snapshot
\* of the document
RestoredSnapshot == restoreLayout(Document, AsLayoutConfig(currentArrangement))

\* C30: the snapshot lists the Main panel first and the Secondary panel
\* second, the empty string standing for an absent one, and the Sub panels
\* from the third place on; restoreLayout given the snapshot makes every
\* panel listed from the third place on a Sub panel and none the Secondary
\* panel. The Main and the Secondary panel are the panels of .main-view with
\* their slot class, the Sub panels those of .sub-views.
C30_SnapshotIndexes ==
    /\ Len(currentArrangement) >= 2
    /\ \A p \in PanelsIn(mainView, "main-panel") : currentArrangement[1] = p
    /\ PanelsIn(mainView, "main-panel") = {} => currentArrangement[1] = ""
    /\ \A p \in PanelsIn(mainView, "secondary-panel") : currentArrangement[2] = p
    /\ PanelsIn(mainView, "secondary-panel") = {} => currentArrangement[2] = ""
    /\ {currentArrangement[i] : i \in 3..Len(currentArrangement)}
         = PanelsIn(subViews, "sub-panel")
    /\ \A i \in 3..Len(currentArrangement) :
         /\ "secondary-panel" \notin RestoredSnapshot.panelClass[currentArrangement[i]]
         /\ "sub-panel" \in RestoredSnapshot.panelClass[currentArrangement[i]]

\* there is a Main panel, no Secondary panel and a Sub panel, which the
\* restore of the snapshot leaves a Sub panel
C30_Witness ==
    /\ Len(currentArrangement) >= 3
    /\ currentArrangement[1] # ""
    /\ currentArrangement[2] = ""
    /\ PanelsIn(mainView, "secondary-panel") = {}
    /\ RestoredSnapshot.panelClass[currentArrangement[3]] = {"sub-panel"}

\* the panels whose header click reaches a swap: the Sub panels and the
\* Secondary panel
SwapTargets == {p \in Sites : panelClass[p] \cap {"sub-panel", "secondary-panel"} # {}}

\* a click on the header of target would change the document
Swaps(target) == panelHeaderClick(Document, isPinned, target).doc # Document

\* C31: a step that flips the pinned flag outside initialize() appends one
\* write of the new value under the key pinned, and a write under pinned
\* comes with a flip; whenever a click can be handled, the click on the
\* header of a Sub or Secondary panel swaps panels if and only if the flag is
\* false; and when the restore of pinned resumes with the persisted value
\* true, the flag is set and no header click swaps.
C31_PinTogglesSwapping ==
    /\ [][(isPinned' # isPinned /\ pc' = pc)
           => /\ isPinned' = ~isPinned
              /\ channel' = Append(channel, SetMsg("pinned", JsBoolean(isPinned')))
              /\ setCalls' = setCalls + 1]_vars
    /\ [][(setCalls' # setCalls /\ Appended[1].key = "pinned")
           => /\ isPinned' = ~isPinned
              /\ Appended = <<SetMsg("pinned", JsBoolean(isPinned'))>>]_vars
    /\ [](Idle => \A target \in SwapTargets : Swaps(target) <=> ~isPinned)
    /\ [][(pc = "restorePinnedState" /\ pc' # pc /\ answer = JsBoolean(TRUE))
           => /\ isPinned'
              /\ \A target \in Sites :
                   panelHeaderClick(Document', isPinned', target).doc = Document']_vars

\* C32: in an unpinned state with a Main panel m, swapMainWithSub(s) for the
\* site s of any Sub slot followed at once by swapMainWithSub(m) gives back
\* the arrangement from before: the same Main, the same Secondary and the
\* same Sub panels in the same order.
C32_SwapThenSwapBack ==
    (Idle /\ ~isPinned /\ currentArrangement[1] # "") =>
        \A i \in 3..Len(currentArrangement) :
            LET sub == currentArrangement[i]
                main == currentArrangement[1]
                r1 == swapMainWithSub(Document, isPinned, sub)
                r2 == swapMainWithSub(r1.doc, isPinned, main)
            IN  saveLayoutSlots(r2.doc) = currentArrangement

\* an unpinned arrangement with three Sub panels in which each panel has one
\* slot, other than the built-in one
C32_Witness ==
    /\ Idle
    /\ ~isPinned
    /\ Len(currentArrangement) = 5
    /\ Cardinality(SitesOf(currentArrangement)) = 5
    /\ currentArrangement # BuiltinArrangement

\* C33: when restoreLayout has applied a valid layout, applying the same
\* layout once more changes neither the slot classes of the panels, nor the
\* mode classes of their webviews, nor the snapshot, and applying it a third
\* time changes nothing at all.
C33_ApplyArrangementIdempotent ==
    [][(pc = "restoreLayout" /\ pc' = "restorePinnedState"
        /\ isValidLayoutConfig(answer))
       => LET once == Document'
              twice == restoreLayout(once, answer)
          IN  /\ twice.panelClass = once.panelClass
              /\ twice.webviewClass = once.webviewClass
              /\ saveLayoutSlots(twice) = saveLayoutSlots(once)
              /\ restoreLayout(twice, answer) = twice]_vars

\* a layout that moved panels has been applied after a swap
C33_Witness ==
    /\ pc = "restorePinnedState"
    /\ sentLayout # NotSent
    /\ currentArrangement = <<"threads", "x", "tiktok", "youtube", "instagram">>

\* the webview of p is un-muted and has received volume
Sounds(a, volume) == ~a.muted /\ a.volume = volume

\* C34: a volume applied to a webview mutes it if and only if the volume is
\* exactly 0, however small it is otherwise; after a click on a volume
\* button that leaves globalVolume at 0 every webview is muted, and after one
\* that leaves it above 0 every webview is un-muted and has received
\* globalVolume; the same holds of a webview the volume is applied to at its
\* dom-ready.
C34_MutedIffZero ==
    /\ [][\A delta \in {VOLUME_STEP, Rat(-1, 10)} :
             ChangeGlobalVolume(delta)
             => \A p \in Sites :
                  /\ globalVolume' = Rat(0, 1) => audio'[p].muted
                  /\ RatLess(Rat(0, 1), globalVolume')
                       => Sounds(audio'[p], globalVolume')]_vars
    /\ [][\A p \in Sites :
             audio'[p] # audio[p]
             => /\ audio'[p].muted <=> globalVolume' = Rat(0, 1)
                /\ ~audio'[p].muted => audio'[p].volume = globalVolume']_vars
    /\ [](\A volume \in {Rat(1, 1000000), Rat(1, 10), Rat(1, 1)} :
            \A muted \in BOOLEAN :
                /\ Sounds(applyVolume([muted |-> muted, volume |-> NotApplied], volume),
                          volume)
                /\ applyVolume([muted |-> muted, volume |-> volume], Rat(0, 1)).muted)

\* every webview had received the volume 0.1 and was muted by the click
\* that brought globalVolume to 0
C34_Witness ==
    /\ pc = "initialized"
    /\ globalVolume = Rat(0, 1)
    /\ \A p \in Sites : audio[p].muted /\ audio[p].volume = Rat(1, 10)

====
